---- MODULE Spec2Model ----
(***************************************************************************)
(* kbs2: Config and its operations (src/src/kbs2/config.rs).               *)
(*                                                                         *)
(* Spec: several kbs2 processes unwrap the same passphrase-wrapped key     *)
(* file.  Each one runs unwrap_keyfile once: shm_open(O_CREAT | O_EXCL) on *)
(* the name derived from the key file, the passphrase prompt, the read of  *)
(* the key file, Decryptor::new, decrypt + read_to_string, ftruncate,      *)
(* Mmap::map, make_mut and write_all.  Every system call is one step, so   *)
(* the steps of different processes interleave.  TeardownSpec adds the     *)
(* command that unlinks the name, FairSpec fair scheduling.                *)
(*                                                                         *)
(* The POSIX shared memory namespace holds one name (that of the key       *)
(* file).  A shared memory object is identified by the process that        *)
(* created it; the name binds to at most one object, a descriptor refers   *)
(* to an object whether or not the name still binds to it.                 *)
(*                                                                         *)
(* NamingSpec: unwrapped_key_shm_name over the spellings of a path.        *)
(* HookSpec: call_hook in a chain of processes that inherit KBS2_HOOK.     *)
(* GeneratorSpec: get_generator.  ConfigSpec: initialize, then load.       *)
(* Each specification holds the state of the others at its idle value.     *)
(***************************************************************************)
EXTENDS Integers, Sequences, FiniteSets, TLC

\* Number of kbs2 processes that call unwrap_keyfile.
NProcs == 2
\* Longest plaintext key, in bytes.
MaxKeyLen == 2

Procs == 1..NProcs

\* Bytes of a plaintext key (never the zero byte ftruncate fills with).
KeyBytes == {65, 66}
ZeroByte == 0

RECURSIVE SeqsUpTo(_, _)
SeqsUpTo(S, n) ==
  IF n = 0 THEN {<<>>}
  ELSE LET shorter == SeqsUpTo(S, n - 1)
       IN  shorter \cup {Append(s, b) : s \in {t \in shorter : Len(t) = n - 1}, b \in S}

Keys == SeqsUpTo(KeyBytes, MaxKeyLen)

Range(s) == {s[i] : i \in 1..Len(s)}

\* The passphrase the key was wrapped with, and another one.
Passphrases == {"correct-horse", "wrong-password"}

(***************************************************************************)
(* The key file on disk: an age envelope.  variant is what its header      *)
(* announces; damage is where (if anywhere) the file is corrupted.         *)
(***************************************************************************)
Damages == {"none", "header", "stanza", "mac", "payload"}

\* One key of full length, for the envelopes that never yield their key.
SampleKey == [i \in 1..MaxKeyLen |-> 65]

Envelopes ==
  {[variant |-> "scrypt", passphrase |-> "correct-horse", key |-> k, damage |-> "none"] :
     k \in Keys}
  \cup
  {[variant |-> "scrypt", passphrase |-> "correct-horse", key |-> SampleKey, damage |-> d] :
     d \in Damages}
  \cup
  {[variant |-> "x25519", passphrase |-> "", key |-> SampleKey, damage |-> "none"]}

(***************************************************************************)
(* Values of Result<fs::File>.                                             *)
(***************************************************************************)
NoResult == [type |-> "none", detail |-> <<>>]
OkFile == [type |-> "ok", detail |-> <<>>]
\* anyhow!(..): the formatted message, piece by piece
Msg(m) == [type |-> "anyhow", detail |-> m]
\* nix::Error::Sys(errno)
Nix(errno) == [type |-> "nix", detail |-> <<errno>>]
\* std::io::Error
Io(kind) == [type |-> "io", detail |-> <<kind>>]

AlreadyExists == Msg(<<"unwrapped key already exists">>)
NotPassphraseWrapped == Msg(<<"key unwrap failed; not a password-wrapped keyfile?">>)
LoadFailed(e) == Msg(<<"unable to load private key (backend reports: ", e, ")">>)
DecryptFailed(e) == Msg(<<"unable to decrypt (backend reports: ", e, ")">>)
DecryptIoFailed == Msg(<<"i/o error while decrypting">>)
\* the error util::get_password returns
PromptFailed == [type |-> "util", detail |-> <<"get_password">>]

NoEnvelope == [variant |-> "", passphrase |-> "", key |-> <<>>, damage |-> ""]

(***************************************************************************)
(* The age backend, as unwrap_keyfile uses it.                             *)
(***************************************************************************)
\* Decryptor::new(wrapped_key): parses the header only, never sees a passphrase.
Decryptor_new(envelope) ==
  IF envelope.damage = "header" THEN [ok |-> FALSE, val |-> "InvalidHeader"]
  ELSE IF envelope.variant = "scrypt" THEN [ok |-> TRUE, val |-> "Passphrase"]
  ELSE [ok |-> TRUE, val |-> "Recipients"]

\* decryptor.decrypt(&password, Some(18)): unwraps the file key with the
\* passphrase, then checks the header MAC with it.
decrypt(envelope, passphrase) ==
  IF passphrase /= envelope.passphrase \/ envelope.damage = "stanza"
  THEN [ok |-> FALSE, val |-> "DecryptionFailed"]
  ELSE IF envelope.damage = "mac" THEN [ok |-> FALSE, val |-> "InvalidMac"]
  ELSE [ok |-> TRUE, val |-> "stream"]

\* r.read_to_string(&mut unwrapped_key): decrypts the payload.
read_to_string(envelope) ==
  IF envelope.damage = "payload" THEN [ok |-> FALSE, val |-> <<>>]
  ELSE [ok |-> TRUE, val |-> envelope.key]

(***************************************************************************)
(* The operating system, as unwrap_keyfile uses it.  Each operator gives   *)
(* the outcomes a call can have in the state it is made in.                *)
(***************************************************************************)
\* Mutant: O_EXCL left out, so an existing object is opened.
shm_open_no_excl(bound) == {"ok", "ENOSPC"}

\* Mutant: the call waits for as long as the name is bound.
shm_open_blocking(bound) == IF bound /= 0 THEN {} ELSE {"ok", "ENOSPC"}

\* mman::shm_open(name, O_RDWR | O_CREAT | O_EXCL, 0600); bound is the object
\* the name binds to (0: none).
shm_open(bound) == IF bound /= 0 THEN {"EEXIST"} ELSE {"ok", "ENOSPC"}

\* mman::shm_unlink(name)
shm_unlink(bound) == IF bound = 0 THEN {"ENOENT"} ELSE {"ok", "EACCES"}

\* util::get_password(): a passphrase typed by the user, or no terminal.
get_password == {[ok |-> TRUE, val |-> pw] : pw \in Passphrases}
                \cup {[ok |-> FALSE, val |-> ""]}

\* std::fs::read(&self.keyfile)
fs_read == {"ok", "PermissionDenied"}

\* unistd::ftruncate(fd, len): the outcomes, and the contents it leaves.
ftruncate == {"ok", "EINTR"}

\* Mutant: one byte of slack after the requested length.
ftruncate_slack(data, len) ==
  [i \in 1..(len + 1) |-> IF i <= Len(data) THEN data[i] ELSE ZeroByte]

ftruncate_contents(data, len) ==
  [i \in 1..len |-> IF i <= Len(data) THEN data[i] ELSE ZeroByte]

\* Mmap::map(&file) and Mmap::make_mut()
Mmap_map == {"ok", "ENOMEM"}
make_mut == {"ok", "EACCES"}

\* <&mut [u8] as Write>::write_all(buf): copies as much of buf as the slice
\* holds; an Err(WriteZero) if some of buf is left over.
\* Mutant: a short write, the last byte of buf is not copied.
slice_write_short(data, maplen, buf) ==
  [i \in 1..Len(data) |-> IF i <= maplen /\ i < Len(buf) THEN buf[i] ELSE data[i]]

slice_write(data, maplen, buf) ==
  [i \in 1..Len(data) |-> IF i <= maplen /\ i <= Len(buf) THEN buf[i] ELSE data[i]]

write_all(maplen, buf) == IF Len(buf) <= maplen THEN "ok" ELSE "WriteZero"

(***************************************************************************)
(* The naming scheme: Config::unwrapped_key_shm_name (config.rs 148-165).  *)
(*                                                                         *)
(* A path is a sequence of components, each a sequence of bytes, absolute  *)
(* or relative to the working directory.  The file system is small: a      *)
(* directory, two regular files and two symbolic links.                    *)
(***************************************************************************)
\* Longest path spelling, in components.
MaxPathLen == 2

Slash == <<47>>
Dot == <<46>>
DotDot == <<46, 46>>
DirD == <<100>>                \* "d"
FileKey == <<107, 101, 121>>   \* "key"
Lnk == <<108, 110, 107>>       \* "lnk"

Components == {Dot, DotDot, DirD, FileKey, Lnk}

\* The file system, by canonical path: /d, /d/key, /key, /lnk -> /d/key,
\* /d/lnk -> /d.
Dirs == {<<>>, <<DirD>>}
Files == {<<DirD, FileKey>>, <<FileKey>>}
Symlinks == {[link |-> <<Lnk>>, target |-> <<DirD, FileKey>>],
             [link |-> <<DirD, Lnk>>, target |-> <<DirD>>]}
WorkingDir == <<DirD>>

PathSpellings ==
  {[absolute |-> TRUE, components |-> c] : c \in SeqsUpTo(Components, MaxPathLen)}
  \cup
  {[absolute |-> FALSE, components |-> c] :
     c \in SeqsUpTo(Components, MaxPathLen - 1) \ {<<>>}}

\* fs::canonicalize walks the spelling from the root (or the working
\* directory), dropping ".", stepping up on "..", following symbolic links.
RECURSIVE Resolve(_, _)
Resolve(at, rest) ==
  IF rest = <<>> THEN [ok |-> TRUE, val |-> at]
  ELSE IF at \in Files THEN [ok |-> FALSE, val |-> "NotADirectory"]
  ELSE LET c == Head(rest)
           next == Append(at, c)
           links == {l \in Symlinks : l.link = next}
       IN  IF c = Dot THEN Resolve(at, Tail(rest))
           ELSE IF c = DotDot
           THEN Resolve(IF at = <<>> THEN at ELSE SubSeq(at, 1, Len(at) - 1), Tail(rest))
           ELSE IF links /= {}
           THEN Resolve((CHOOSE l \in links : TRUE).target, Tail(rest))
           ELSE IF next \in Dirs \cup Files THEN Resolve(next, Tail(rest))
           ELSE [ok |-> FALSE, val |-> "NotFound"]

canonicalize(path) ==
  IF path.components = <<>> THEN [ok |-> FALSE, val |-> "NotFound"]
  ELSE Resolve(IF path.absolute THEN <<>> ELSE WorkingDir, path.components)

\* canonicalized_keyfile.as_os_str().as_bytes()
RECURSIVE PathBytes(_)
PathBytes(canonical) ==
  IF canonical = <<>> THEN <<>>
  ELSE Slash \o Head(canonical) \o PathBytes(Tail(canonical))

as_bytes(canonical) == IF canonical = <<>> THEN Slash ELSE PathBytes(canonical)

\* Sha256::digest: 32 bytes that depend on the input bytes alone.  The
\* arithmetic stands in for SHA-256.
DigestLen == 32
RECURSIVE Mix(_, _, _)
Mix(bytes, i, acc) ==
  IF bytes = <<>> THEN acc
  ELSE Mix(Tail(bytes), i, (acc * 31 + Head(bytes) * (i + 7) + Len(bytes)) % 256)

Sha256_digest(bytes) == [i \in 1..DigestLen |-> Mix(bytes, i, (i * 101) % 256)]

\* {:x} of the digest: two lower-case hex digits a byte.
LowerHex(digest) ==
  [i \in 1..(2 * Len(digest)) |->
     LET b == digest[(i + 1) \div 2]
         digits == <<"0", "1", "2", "3", "4", "5", "6", "7",
                     "8", "9", "a", "b", "c", "d", "e", "f">>
     IN  IF i % 2 = 1 THEN digits[(b \div 16) + 1] ELSE digits[(b % 16) + 1]]

\* pub static UNWRAPPED_KEY_SHM_BASENAME: &str = "/_kbs2_uk";
UNWRAPPED_KEY_SHM_BASENAME == <<"/", "_", "k", "b", "s", "2", "_", "u", "k">>

\* shm_name.truncate(31)
ShmNameMax == 31

truncate(string, len) == IF Len(string) > len THEN SubSeq(string, 1, len) ELSE string

\* format!("{}_{:x}", UNWRAPPED_KEY_SHM_BASENAME, Sha256::digest(..))
format_shm_name(bytes) ==
  UNWRAPPED_KEY_SHM_BASENAME \o <<"_">> \o LowerHex(Sha256_digest(bytes))

\* Mutant: the path is hashed as it is spelled, not canonicalized.
unwrapped_key_shm_name_as_spelled(path) ==
  LET c == canonicalize(path)
  IN  IF ~c.ok THEN c
      ELSE [ok |-> TRUE, val |-> truncate(format_shm_name((IF path.absolute THEN Slash ELSE <<>>)
                                         \o PathBytes(path.components)),
                                 ShmNameMax)]

\* Mutant: the end of the formatted name is kept, not its beginning.
unwrapped_key_shm_name_tail(path) ==
  LET c == canonicalize(path)
  IN  IF ~c.ok THEN c
      ELSE LET n == format_shm_name(as_bytes(c.val))
           IN  [ok |-> TRUE, val |-> SubSeq(n, Len(n) - ShmNameMax + 1, Len(n))]

\* config.rs 148-165
unwrapped_key_shm_name(path) ==
  LET c == canonicalize(path)
  IN  IF ~c.ok THEN c
      ELSE [ok |-> TRUE, val |-> truncate(format_shm_name(as_bytes(c.val)), ShmNameMax)]

(***************************************************************************)
(* State.                                                                  *)
(***************************************************************************)
VARIABLES
  keyfile,        \* the envelope in the key file (read-only after setup)
  name,           \* the object the shm name binds to (its creator), 0: none
  obj,            \* obj[c]: contents of the object process c created
  pc,             \* pc[p]: the call process p makes next
  unwrapped_fd,   \* the object p's descriptor refers to, 0: none
  password,       \* locals of unwrap_keyfile
  wrapped_key,
  unwrapped_key,
  mmap,           \* length of the mapping p made, -1: none (or released)
  result,         \* what unwrap_keyfile returned to p
  steps,          \* history: the calls p has made, in order
  saw_entry,      \* history: the name was bound when p called shm_open
  origin,         \* history: the error of the step that made p roll back
  unlinked,       \* history: outcome of p's shm_unlink, "": not called
  keyfile_path,   \* naming: Config.keyfile of each invocation that derives the name
  shm_name,       \* naming: what unwrapped_key_shm_name returned to it
  reentrant_hooks, \* hooks: Config.reentrant_hooks
  stack,          \* hooks: the chain of processes, each started by the one before
  generators,     \* generators: Config.generators
  query,          \* generators: the name get_generator was called with
  found,          \* generators: what get_generator returned
  gen_alphabet,   \* generators: GeneratorInternalConfig.alphabet, as code points
  gen_length,     \* generators: GeneratorInternalConfig.length
  generated,      \* generators: what secret() returned
  config_dir,     \* configuration: the directory passed to initialize and load
  disk,           \* configuration: the files written, path -> contents
  initialized,    \* configuration: what initialize returned
  loaded          \* configuration: what load returned

locals == <<unwrapped_fd, password, wrapped_key, unwrapped_key, mmap>>
history == <<steps, saw_entry, origin, unlinked>>
vars == <<keyfile, name, obj, pc, locals, result, history>>

\* The invocations whose derived names are compared: the one that creates the
\* entry and one that looks it up later.
Invocations == {"creator", "consumer"}
NotComputed == [ok |-> FALSE, val |-> "pending"]

naming == <<keyfile_path, shm_name>>
NamingIdle ==
  /\ keyfile_path = [i \in Invocations |-> [absolute |-> FALSE, components |-> <<>>]]
  /\ shm_name = [i \in Invocations |-> NotComputed]

hooks == <<reentrant_hooks, stack>>
HooksIdle ==
  /\ reentrant_hooks = FALSE
  /\ stack = <<>>

gens == <<generators, query, found, gen_alphabet, gen_length, generated>>
GensIdle ==
  /\ generators = <<>>
  /\ query = ""
  /\ found = NoResult
  /\ gen_alphabet = <<>>
  /\ gen_length = 0
  /\ generated = NoResult

conf == <<config_dir, disk, initialized, loaded>>
ConfIdle ==
  /\ config_dir = <<>>
  /\ disk = {}
  /\ initialized = NoResult
  /\ loaded = NoResult

\* The state of everything but the unwrap transaction.
others == <<naming, hooks, gens, conf>>
OthersIdle == NamingIdle /\ HooksIdle /\ GensIdle /\ ConfIdle

\* No process has entered unwrap_keyfile.
UnwrapStart ==
  /\ name = 0
  /\ obj = [p \in Procs |-> <<>>]
  /\ pc = [p \in Procs |-> "shm_open"]
  /\ unwrapped_fd = [p \in Procs |-> 0]
  /\ password = [p \in Procs |-> ""]
  /\ wrapped_key = [p \in Procs |-> NoEnvelope]
  /\ unwrapped_key = [p \in Procs |-> <<>>]
  /\ mmap = [p \in Procs |-> -1]
  /\ result = [p \in Procs |-> NoResult]
  /\ steps = [p \in Procs |-> <<>>]
  /\ saw_entry = [p \in Procs |-> FALSE]
  /\ origin = [p \in Procs |-> NoResult]
  /\ unlinked = [p \in Procs |-> ""]

\* unwrap_keyfile is not part of the behaviour.
UnwrapIdle ==
  /\ keyfile = NoEnvelope
  /\ UnwrapStart

Init ==
  /\ keyfile \in Envelopes
  /\ UnwrapStart
  /\ OthersIdle

\* p makes the call `call` and goes on to `next`.
Step(p, calls, next) ==
  /\ steps' = [steps EXCEPT ![p] = @ \o calls]
  /\ pc' = [pc EXCEPT ![p] = next]

\* return r
Return(p, calls, r) ==
  /\ Step(p, calls, "done")
  /\ result' = [result EXCEPT ![p] = r]

\* Mutant: the error is returned without the unlink.
Rollback_no_unlink(p, calls, e) ==
  /\ steps' = [steps EXCEPT ![p] = @ \o calls]
  /\ pc' = [pc EXCEPT ![p] = "done"]
  /\ result' = [result EXCEPT ![p] = e]
  /\ origin' = [origin EXCEPT ![p] = e]
  /\ UNCHANGED <<name, unlinked>>

\* Mutant: a failed unlink is swallowed and the step's error returned.
Rollback_swallow(p, calls, e) ==
  \E u \in shm_unlink(name) :
    /\ steps' = [steps EXCEPT ![p] = @ \o calls \o <<"shm_unlink">>]
    /\ pc' = [pc EXCEPT ![p] = "done"]
    /\ name' = IF u = "ok" THEN 0 ELSE name
    /\ result' = [result EXCEPT ![p] = e]
    /\ origin' = [origin EXCEPT ![p] = e]
    /\ unlinked' = [unlinked EXCEPT ![p] = u]

\* Mutant: after the unlink the transaction is started again.
Rollback_retry(p, calls, e) ==
  \E u \in shm_unlink(name) :
    /\ steps' = [steps EXCEPT ![p] = @ \o calls \o <<"shm_unlink">>]
    /\ pc' = [pc EXCEPT ![p] = IF u = "ok" THEN "shm_open" ELSE "done"]
    /\ name' = IF u = "ok" THEN 0 ELSE name
    /\ result' = [result EXCEPT ![p] = IF u = "ok" THEN NoResult ELSE Nix(u)]
    /\ origin' = [origin EXCEPT ![p] = e]
    /\ unlinked' = [unlinked EXCEPT ![p] = u]

\* .or_else(|e| { mman::shm_unlink(&shm_name)?; Err(e) })?
\* The unlink goes by name: it removes whatever the name binds to.
Rollback(p, calls, e) ==
  \E u \in shm_unlink(name) :
    /\ steps' = [steps EXCEPT ![p] = @ \o calls \o <<"shm_unlink">>]
    /\ pc' = [pc EXCEPT ![p] = "done"]
    /\ name' = IF u = "ok" THEN 0 ELSE name
    /\ result' = [result EXCEPT ![p] = IF u = "ok" THEN e ELSE Nix(u)]
    /\ origin' = [origin EXCEPT ![p] = e]
    /\ unlinked' = [unlinked EXCEPT ![p] = u]

(***************************************************************************)
(* unwrap_keyfile, one action per call it makes.                           *)
(***************************************************************************)
\* Config.keyfile of the processes that unwrap: they share one configuration.
KeyfilePath == [absolute |-> TRUE, components |-> <<DirD, FileKey>>]

\* config.rs 176-194.  The name is derived first: unwrapped_key_shm_name
\* fails exactly when fs::canonicalize does, and its ? returns that error
\* before anything is created.
ShmOpen(p) ==
  /\ pc[p] = "shm_open"
  /\ IF ~canonicalize(KeyfilePath).ok
     THEN /\ Return(p, <<>>, Io(canonicalize(KeyfilePath).val))
          /\ UNCHANGED <<saw_entry, unwrapped_fd, name, obj>>
     ELSE \E r \in shm_open(name) :
       /\ saw_entry' = [saw_entry EXCEPT ![p] = (name /= 0)]
       /\ IF r = "ok"
          THEN /\ Step(p, <<"shm_open">>, "get_password")
               /\ unwrapped_fd' = [unwrapped_fd EXCEPT ![p] = IF name = 0 THEN p ELSE name]
               /\ name' = IF name = 0 THEN p ELSE name
               /\ obj' = IF name = 0 THEN [obj EXCEPT ![p] = <<>>] ELSE obj
               /\ UNCHANGED result
          ELSE /\ Return(p, <<"shm_open">>,
                         IF r = "EEXIST" THEN AlreadyExists ELSE Nix(r))
               /\ UNCHANGED <<unwrapped_fd, name, obj>>
  /\ UNCHANGED <<keyfile, password, wrapped_key, unwrapped_key, mmap, origin, unlinked>>
  /\ UNCHANGED others

\* config.rs 197-200
GetPassword(p) ==
  /\ pc[p] = "get_password"
  /\ \E r \in get_password :
       IF r.ok
       THEN /\ Step(p, <<"get_password">>, "read")
            /\ password' = [password EXCEPT ![p] = r.val]
            /\ UNCHANGED <<name, result, origin, unlinked>>
       ELSE /\ Rollback(p, <<"get_password">>, PromptFailed)
            /\ UNCHANGED password
  /\ UNCHANGED <<keyfile, obj, unwrapped_fd, wrapped_key, unwrapped_key, mmap, saw_entry>>
  /\ UNCHANGED others

\* config.rs 203-206
ReadKeyfile(p) ==
  /\ pc[p] = "read"
  /\ \E r \in fs_read :
       IF r = "ok"
       THEN /\ Step(p, <<"read">>, "Decryptor_new")
            /\ wrapped_key' = [wrapped_key EXCEPT ![p] = keyfile]
            /\ UNCHANGED <<name, result, origin, unlinked>>
       ELSE /\ Rollback(p, <<"read">>, Io(r))
            /\ UNCHANGED wrapped_key
  /\ UNCHANGED <<keyfile, obj, unwrapped_fd, password, unwrapped_key, mmap, saw_entry>>
  /\ UNCHANGED others

\* Mutant: every envelope that parses is handed to decrypt.
NewDecryptor_any_variant(p) ==
  /\ pc[p] = "Decryptor_new"
  /\ LET d == Decryptor_new(wrapped_key[p])
     IN  IF d.ok
         THEN /\ Step(p, <<"Decryptor_new">>, "decrypt")
              /\ UNCHANGED <<name, result, origin, unlinked>>
         ELSE Rollback(p, <<"Decryptor_new">>, LoadFailed(d.val))
  /\ UNCHANGED <<keyfile, obj, locals, saw_entry>>
  /\ UNCHANGED others

\* config.rs 209-224
NewDecryptor(p) ==
  /\ pc[p] = "Decryptor_new"
  /\ LET d == Decryptor_new(wrapped_key[p])
     IN  IF d.ok /\ d.val = "Passphrase"
         THEN /\ Step(p, <<"Decryptor_new">>, "decrypt")
              /\ UNCHANGED <<name, result, origin, unlinked>>
         ELSE Rollback(p, <<"Decryptor_new">>,
                       IF d.ok THEN NotPassphraseWrapped ELSE LoadFailed(d.val))
  /\ UNCHANGED <<keyfile, obj, locals, saw_entry>>
  /\ UNCHANGED others

\* config.rs 228-242
Decrypt(p) ==
  /\ pc[p] = "decrypt"
  /\ LET r == decrypt(wrapped_key[p], password[p])
         s == read_to_string(wrapped_key[p])
     IN  IF ~r.ok
         THEN /\ Rollback(p, <<"decrypt">>, DecryptFailed(r.val))
              /\ UNCHANGED unwrapped_key
         ELSE IF ~s.ok
         THEN /\ Rollback(p, <<"decrypt", "read_to_string">>, DecryptIoFailed)
              /\ UNCHANGED unwrapped_key
         ELSE /\ Step(p, <<"decrypt", "read_to_string">>, "ftruncate")
              /\ unwrapped_key' = [unwrapped_key EXCEPT ![p] = s.val]
              /\ UNCHANGED <<name, result, origin, unlinked>>
  /\ UNCHANGED <<keyfile, obj, unwrapped_fd, password, wrapped_key, mmap, saw_entry>>
  /\ UNCHANGED others

\* config.rs 249-256
Ftruncate(p) ==
  /\ pc[p] = "ftruncate"
  /\ \E r \in ftruncate :
       IF r = "ok"
       THEN /\ Step(p, <<"ftruncate">>, "Mmap_map")
            /\ obj' = [obj EXCEPT ![unwrapped_fd[p]] =
                         ftruncate_contents(@, Len(unwrapped_key[p]))]
            /\ UNCHANGED <<name, result, origin, unlinked>>
       ELSE /\ Rollback(p, <<"ftruncate">>, Nix(r))
            /\ UNCHANGED obj
  /\ UNCHANGED <<keyfile, locals, saw_entry>>
  /\ UNCHANGED others

\* config.rs 260-268: Mmap::map(&file)?  The ? returns the error as it is.
MmapMap(p) ==
  /\ pc[p] = "Mmap_map"
  /\ \E r \in Mmap_map :
       IF r = "ok"
       THEN /\ Step(p, <<"Mmap_map">>, "make_mut")
            /\ mmap' = [mmap EXCEPT ![p] = Len(obj[unwrapped_fd[p]])]
            /\ UNCHANGED result
       ELSE /\ Return(p, <<"Mmap_map">>, Io(r))
            /\ UNCHANGED mmap
  /\ UNCHANGED <<keyfile, name, obj, unwrapped_fd, password, wrapped_key,
                 unwrapped_key, saw_entry, origin, unlinked>>
  /\ UNCHANGED others

\* config.rs 268-271
MakeMut(p) ==
  /\ pc[p] = "make_mut"
  /\ \E r \in make_mut :
       IF r = "ok"
       THEN /\ Step(p, <<"make_mut">>, "write_all")
            /\ UNCHANGED <<name, result, origin, unlinked>>
       ELSE Rollback(p, <<"make_mut">>, Io(r))
  /\ UNCHANGED <<keyfile, obj, locals, saw_entry>>
  /\ UNCHANGED others

\* config.rs 273-281
WriteAll(p) ==
  /\ pc[p] = "write_all"
  /\ obj' = [obj EXCEPT ![unwrapped_fd[p]] = slice_write(@, mmap[p], unwrapped_key[p])]
  /\ LET r == write_all(mmap[p], unwrapped_key[p])
     IN  IF r = "ok"
         THEN /\ Return(p, <<"write_all">>, OkFile)
              /\ UNCHANGED <<name, origin, unlinked>>
         ELSE Rollback(p, <<"write_all">>, Io(r))
  /\ UNCHANGED <<keyfile, locals, saw_entry>>
  /\ UNCHANGED others

\* Mutant: a cleanup guard unlinks the name when the process ends.
Exit_unlinks(p) ==
  /\ pc[p] = "done"
  /\ pc' = [pc EXCEPT ![p] = "exited"]
  /\ unwrapped_fd' = [unwrapped_fd EXCEPT ![p] = 0]
  /\ mmap' = [mmap EXCEPT ![p] = -1]
  /\ name' = IF name = p THEN 0 ELSE name
  /\ UNCHANGED <<keyfile, obj, password, wrapped_key, unwrapped_key,
                 result, history>>
  /\ UNCHANGED others

\* The process ends: its descriptor and its mapping are released.  Nothing
\* in unwrap_keyfile or in the drop of the fs::File it returns unlinks the name.
Exit(p) ==
  /\ pc[p] = "done"
  /\ pc' = [pc EXCEPT ![p] = "exited"]
  /\ unwrapped_fd' = [unwrapped_fd EXCEPT ![p] = 0]
  /\ mmap' = [mmap EXCEPT ![p] = -1]
  /\ UNCHANGED <<keyfile, name, obj, password, wrapped_key, unwrapped_key,
                 result, history>>
  /\ UNCHANGED others

Next ==
  \E p \in Procs :
    \/ ShmOpen(p)
    \/ GetPassword(p)
    \/ ReadKeyfile(p)
    \/ NewDecryptor(p)
    \/ Decrypt(p)
    \/ Ftruncate(p)
    \/ MmapMap(p)
    \/ MakeMut(p)
    \/ WriteAll(p)
    \/ Exit(p)

Spec == Init /\ [][Next]_<<vars, others>>

(***************************************************************************)
(* Vocabulary of the properties.                                           *)
(***************************************************************************)
\* unwrap_keyfile has returned to p.
Returned(p) == pc[p] \in {"done", "exited"}

\* p has passed the create-exclusive step (now or earlier).
Passed(p) == Len(steps[p]) > 1 \/ pc[p] = "get_password"

\* p has passed the create-exclusive step and has not returned yet.
Holding(p) == Passed(p) /\ ~Returned(p)

\* How often p made the call c.
Calls(p, c) == Cardinality({i \in 1..Len(steps[p]) : steps[p][i] = c})

\* The call at which p's unwrap failed ("" when it has not failed).
FailedAt(p) ==
  IF ~Returned(p) \/ result[p] = OkFile THEN ""
  ELSE LET own == SelectSeq(steps[p], LAMBDA c : c /= "shm_unlink")
       IN  own[Len(own)]

(***************************************************************************)
(* C1.  Racing unwraps, starting with no entry.                            *)
(***************************************************************************)
\* C1 as stated: in every interleaving exactly one invocation passes the
\* create-exclusive step; every invocation that attempts creation while the
\* entry is present returns AlreadyExists; and when the winner returns success,
\* it is the only success and all other invocations return AlreadyExists.
C1_Original ==
  /\ Cardinality({p \in Procs : Passed(p)}) <= 1
  /\ \A p \in Procs : saw_entry[p] => Returned(p) /\ result[p] = AlreadyExists
  /\ \A p \in Procs :
       result[p] = OkFile =>
         \A q \in Procs \ {p} :
           Returned(q) => result[q] = AlreadyExists

\* C1 amended: at most one invocation at a time is past the create-exclusive
\* step without having returned, and it passed only because no entry was
\* present; every invocation that attempts creation while an entry is present
\* returns AlreadyExists; once an invocation has returned success the entry
\* stays present under its name, no other invocation returns success and no
\* other invocation is past the create-exclusive step.
C1_ExclusiveCreate ==
  /\ Cardinality({p \in Procs : Holding(p)}) <= 1
  /\ \A p \in Procs : Passed(p) => ~saw_entry[p]
  /\ \A p \in Procs : saw_entry[p] => Returned(p) /\ result[p] = AlreadyExists
  /\ \A p \in Procs :
       result[p] = OkFile =>
         /\ name = p
         /\ \A q \in Procs \ {p} :
              /\ result[q] /= OkFile
              /\ ~Holding(q)

\* One invocation succeeded and another, which found its entry, got AlreadyExists.
C1_Witness ==
  \E p, q \in Procs :
    /\ p /= q
    /\ result[p] = OkFile
    /\ saw_entry[q]
    /\ result[q] = AlreadyExists

(***************************************************************************)
(* C2.  Rollback of the steps before the entry is sized.                   *)
(***************************************************************************)
\* The errors of the prompt, read, inspection and decrypt steps.
EarlyCalls == {"get_password", "read", "Decryptor_new", "decrypt", "read_to_string"}

\* C2: when unwrap returns the error of its prompt, read, inspection or decrypt
\* step, then at that return the name is unbound (the entry it created is
\* gone), so that shm_open on the same name can create the entry again.
C2_EarlyRollback ==
  [][\A p \in Procs :
       (/\ ~Returned(p)
        /\ Returned(p)'
        /\ FailedAt(p)' \in EarlyCalls
        /\ result'[p] = origin'[p])
       => /\ name = p
          /\ name' = 0
          /\ "ok" \in shm_open(name')]_vars

\* Scenario B: one invocation returned the wrong-passphrase error, and an
\* invocation after it created the entry anew and succeeded.
C2_Witness ==
  \E p, q \in Procs :
    /\ password[p] = "wrong-password"
    /\ result[p] = DecryptFailed("DecryptionFailed")
    /\ password[q] = "correct-horse"
    /\ result[q] = OkFile
    /\ name = q

(***************************************************************************)
(* C3.  Rollback of the size-and-populate step.                            *)
(***************************************************************************)
LateCalls == {"ftruncate", "Mmap_map", "make_mut", "write_all"}

\* C3: on every failure of ftruncate, Mmap::map, make_mut or write_all exactly
\* one shm_unlink runs before the error is returned, and when that unlink
\* succeeds no entry of this invocation remains.
C3_Original ==
  \A p \in Procs :
    FailedAt(p) \in LateCalls =>
      /\ Calls(p, "shm_unlink") = 1
      /\ unlinked[p] = "ok" => name /= p

Zeros(n) == [i \in 1..n |-> ZeroByte]

C5_SecondCall ==
  [][\A p, q \in Procs :
       (/\ result[p] = OkFile
        /\ pc[q] = "shm_open"
        /\ pc'[q] /= "shm_open")
       => /\ result'[q] = AlreadyExists
          /\ steps'[q] = <<"shm_open">>
          /\ name /= 0
          /\ name' = name
          /\ obj' = obj]_vars

\* Success, then AlreadyExists, the entry still holding the whole key.
C5_Witness ==
  \E p, q \in Procs :
    /\ result[p] = OkFile
    /\ result[q] = AlreadyExists
    /\ steps[q] = <<"shm_open">>
    /\ name = p
    /\ Len(obj[p]) = MaxKeyLen
    /\ obj[p] = keyfile.key

(***************************************************************************)
(* C6.  Exactness of a successful unwrap.                                  *)
(***************************************************************************)
\* C6: whenever unwrap has returned success to p, the entry is the object p
\* created, its size is the byte length of the plaintext the decrypt step
\* produced (which is the key in the envelope), the mapping had that length,
\* and its contents are that plaintext byte for byte.
C6_Exactness ==
  \A p \in Procs :
    result[p] = OkFile =>
      /\ name = p
      /\ unwrapped_key[p] = read_to_string(keyfile).val
      /\ Len(obj[p]) = Len(unwrapped_key[p])
      /\ mmap[p] \in {Len(unwrapped_key[p]), -1}
      /\ \A i \in 1..Len(unwrapped_key[p]) : obj[p][i] = unwrapped_key[p][i]

\* Scenario A: a successful unwrap of a key of two different bytes.
C6_Witness ==
  \E p \in Procs :
    /\ result[p] = OkFile
    /\ password[p] = "correct-horse"
    /\ obj[p] = <<65, 66>>

(***************************************************************************)
(* C7.  A rollback whose unlink fails.                                     *)
(***************************************************************************)
\* C7: when the shm_unlink of a rollback fails, unwrap does not return success
\* and does not return the error of the step that failed: it returns the
\* error of the unlink.
C7_UnlinkFailureSurfaced ==
  \A p \in Procs :
    unlinked[p] \notin {"", "ok"} =>
      /\ Returned(p)
      /\ result[p] /= OkFile
      /\ result[p] /= origin[p]
      /\ result[p] = Nix(unlinked[p])

\* ftruncate failed with one errno, the unlink after it with another.
C7_Witness ==
  \E p \in Procs :
    /\ origin[p] = Nix("EINTR")
    /\ unlinked[p] = "EACCES"
    /\ name = p

(***************************************************************************)
(* C8.  Persistence of a populated entry.                                  *)
(***************************************************************************)
\* C8: once unwrap has returned success to p, every step of every process
\* (the exit of p included) leaves the name bound to p's object and that
\* object's size and contents unchanged, and every unwrap that makes its
\* shm_open step then returns AlreadyExists.
C8_Persistence ==
  [][\A p \in Procs :
       result[p] = OkFile =>
         /\ name = p /\ name' = p
         /\ obj'[p] = obj[p]
         /\ result'[p] = OkFile
         /\ \A q \in Procs :
              (pc[q] = "shm_open" /\ pc'[q] /= "shm_open")
              => result'[q] = AlreadyExists]_vars

\* The creating process has exited, a later unwrap got AlreadyExists, and the
\* entry still holds the key.
C8_Witness ==
  \E p, q \in Procs :
    /\ pc[p] = "exited"
    /\ result[p] = OkFile
    /\ pc[q] = "exited"
    /\ result[q] = AlreadyExists
    /\ name = p
    /\ obj[p] = keyfile.key
    /\ Len(obj[p]) > 0

(***************************************************************************)
(* C9.  An envelope of another variant.                                    *)
(***************************************************************************)
\* C9: when the envelope a process read parses as a variant other than the
\* passphrase one, its unwrap ends at Decryptor::new: decrypt is never called,
\* one shm_unlink runs, and (the unlink succeeding) the entry is gone and the
\* result is NotPassphraseWrapped.
C9_OtherVariant ==
  \A p \in Procs :
    (/\ Calls(p, "Decryptor_new") > 0
     /\ wrapped_key[p].variant /= "scrypt"
     /\ wrapped_key[p].damage /= "header")
    => /\ Returned(p)
       /\ Calls(p, "decrypt") = 0
       /\ Calls(p, "read_to_string") = 0
       /\ Calls(p, "shm_unlink") = 1
       /\ origin[p] = NotPassphraseWrapped
       /\ unlinked[p] = "ok" => result[p] = NotPassphraseWrapped /\ name /= p

\* An unwrap of a recipient-bound envelope returned NotPassphraseWrapped.
C9_Witness ==
  \E p \in Procs :
    /\ keyfile.variant = "x25519"
    /\ result[p] = NotPassphraseWrapped
    /\ name = 0

(***************************************************************************)
(* C10.  Wrong passphrase against corrupted envelope.                      *)
(***************************************************************************)
\* What unwrap returns when the passphrase is wrong and the envelope intact.
WrongPassphraseError ==
  DecryptFailed(decrypt([keyfile EXCEPT !.damage = "none"], "wrong-password").val)

\* C10: an unwrap that fails because the envelope is corrupted (the passphrase
\* being right) returns the same error value as one that fails because the
\* passphrase is wrong (the envelope being intact).
C10_Original ==
  \A p \in Procs :
    (/\ FailedAt(p) \in {"Decryptor_new", "decrypt", "read_to_string"}
     /\ unlinked[p] = "ok"
     /\ keyfile.variant = "scrypt"
     /\ \/ keyfile.damage = "none" /\ password[p] = "wrong-password"
        \/ keyfile.damage /= "none" /\ password[p] = "correct-horse")
    => result[p] = WrongPassphraseError

(***************************************************************************)
(* The naming scheme on its own: invocations that are configured with any  *)
(* spelling of a key file path and derive the name of the entry.           *)
(***************************************************************************)
NamingInit ==
  /\ UnwrapIdle /\ HooksIdle /\ GensIdle /\ ConfIdle
  /\ keyfile_path \in [Invocations -> PathSpellings]
  /\ shm_name = [i \in Invocations |-> NotComputed]

\* config.rs 148-165, called at line 176
ShmName(i) ==
  /\ shm_name[i] = NotComputed
  /\ shm_name' = [shm_name EXCEPT ![i] = unwrapped_key_shm_name(keyfile_path[i])]
  /\ UNCHANGED <<vars, keyfile_path, hooks, gens, conf>>

NamingNext == \E i \in Invocations : ShmName(i)

NamingSpec == NamingInit /\ [][NamingNext]_<<vars, others>>

(***************************************************************************)
(* C11.  One key file, one name.                                           *)
(***************************************************************************)
\* C11: two invocations whose configured path spellings canonicalize to the
\* same file derive identical names, whichever spelling each was given.
C11_SameFileSameName ==
  \A i, j \in Invocations :
    (/\ shm_name[i].ok
     /\ shm_name[j].ok
     /\ canonicalize(keyfile_path[i]) = canonicalize(keyfile_path[j]))
    => shm_name[i] = shm_name[j]

\* Two invocations given different spellings (one through a symlink or a
\* relative path) of the same file have both derived the same name.
C11_Witness ==
  \E i, j \in Invocations :
    /\ keyfile_path[i] /= keyfile_path[j]
    /\ keyfile_path[i].absolute /= keyfile_path[j].absolute
    /\ shm_name[i].ok
    /\ shm_name[j].ok
    /\ canonicalize(keyfile_path[i]) = canonicalize(keyfile_path[j])
    /\ shm_name[i] = shm_name[j]

(***************************************************************************)
(* C12.  Shape of the name.                                                *)
(***************************************************************************)
IsPrefix(s, t) == Len(s) <= Len(t) /\ s = SubSeq(t, 1, Len(s))

\* C12: every derived name is at most 31 bytes long, begins with the tag
\* "/_kbs2_uk" followed by "_", and what follows the tag is a prefix of the
\* lowercase hex digest of the canonical path.
C12_NameShape ==
  \A i \in Invocations :
    shm_name[i].ok =>
      /\ Len(shm_name[i].val) <= ShmNameMax
      /\ IsPrefix(UNWRAPPED_KEY_SHM_BASENAME \o <<"_">>, shm_name[i].val)
      /\ IsPrefix(SubSeq(shm_name[i].val, Len(UNWRAPPED_KEY_SHM_BASENAME) + 2,
                         Len(shm_name[i].val)),
                  LowerHex(Sha256_digest(as_bytes(canonicalize(keyfile_path[i]).val))))

\* A name has been derived and truncation shortened it.
C12_Witness ==
  \E i \in Invocations :
    /\ shm_name[i].ok
    /\ Len(shm_name[i].val) = ShmNameMax
    /\ Len(format_shm_name(as_bytes(canonicalize(keyfile_path[i]).val))) > ShmNameMax

(***************************************************************************)
(* Config::call_hook.  A kbs2 process calls a hook; the hook command may   *)
(* be a script that starts further processes, kbs2 among them.  Every      *)
(* process inherits the environment of the one that started it, except     *)
(* for what call_hook sets.  stack is the chain of live processes, each    *)
(* waiting for the next.                                                   *)
(***************************************************************************)
\* Longest chain of processes.
MaxDepth == 5

\* KBS2_HOOK in the environment of a process.
Unset == [present |-> FALSE, bytes |-> <<>>]
EnvSet(bytes) == [present |-> TRUE, bytes |-> bytes]
\* absent, "1", the empty string, a byte that is not UTF-8
EnvValues == {Unset, EnvSet(<<49>>), EnvSet(<<>>), EnvSet(<<255>>)}

IsUtf8(bytes) == \A i \in 1..Len(bytes) : bytes[i] < 128

\* std::env::var: Err(NotPresent), Err(NotUnicode(..)) or Ok(value)
env_var(e) ==
  IF ~e.present THEN [ok |-> FALSE, val |-> "NotPresent"]
  ELSE IF ~IsUtf8(e.bytes) THEN [ok |-> FALSE, val |-> "NotUnicode"]
  ELSE [ok |-> TRUE, val |-> e.bytes]

\* The commands of tests::test_call_hook, and a script that starts processes.
Commands == {"true", "false", "this-command-does-not-exist", "hook-script"}
ExitCodes == {0, 1}
exit_codes(cmd) ==
  IF cmd = "true" THEN {0}
  ELSE IF cmd = "false" THEN {1}
  ELSE ExitCodes

\* What Command::status() gives: nothing yet, an error, an exit status.
NoStatus == [ok |-> FALSE, val |-> "none"]
SpawnFailed == [ok |-> FALSE, val |-> "NotFound"]
Exited(code) == [ok |-> TRUE, val |-> code]
spawn(cmd) == IF cmd = "this-command-does-not-exist" THEN SpawnFailed ELSE NoStatus

OkUnit == [type |-> "ok", detail |-> <<>>]

\* Mutant: the exit status is not looked at.
call_hook_result_any_exit(cmd, status) ==
  IF ~status.ok THEN Msg(<<"failed to run hook: ", cmd>>)
  ELSE OkUnit

\* config.rs 111-126
call_hook_result(cmd, status) ==
  IF ~status.ok THEN Msg(<<"failed to run hook: ", cmd>>)
  ELSE IF status.val = 0 THEN OkUnit
  ELSE Msg(<<"hook exited with an error code: ", cmd>>)

\* Mutant: the command gets the caller's environment as it is.
hook_env_inherited(env) == env

\* config.rs 114: .env("KBS2_HOOK", "1")
hook_env(env) == EnvSet(<<49>>)

Kbs2(env) ==
  [kind |-> "kbs2", cmd |-> "", env |-> env, pc |-> "call_hook", ran |-> FALSE,
   status |-> NoStatus, result |-> NoResult, by_hook |-> FALSE]
Proc(cmd, env, by_hook) ==
  [kind |-> "cmd", cmd |-> cmd, env |-> env, pc |-> "running", ran |-> FALSE,
   status |-> NoStatus, result |-> NoResult, by_hook |-> by_hook]

Top == stack[Len(stack)]
Below == SubSeq(stack, 1, Len(stack) - 1)

HookInit ==
  /\ UnwrapIdle /\ NamingIdle /\ GensIdle /\ ConfIdle
  /\ reentrant_hooks \in BOOLEAN
  /\ \E e \in EnvValues : stack = <<Kbs2(e)>>

\* config.rs 109-120
CallHook(cmd) ==
  /\ stack /= <<>>
  /\ Top.kind = "kbs2"
  /\ Top.pc = "call_hook"
  /\ IF reentrant_hooks \/ ~env_var(Top.env).ok
     THEN IF ~(spawn(cmd) = NoStatus)
          THEN stack' = Append(Below, [Top EXCEPT !.cmd = cmd, !.ran = TRUE, !.pc = "returned",
                                           !.status = spawn(cmd),
                                           !.result = call_hook_result(cmd, spawn(cmd))])
          ELSE /\ Len(stack) < MaxDepth
               /\ stack' = Append(Append(Below, [Top EXCEPT !.cmd = cmd, !.ran = TRUE, !.pc = "status"]),
                                  Proc(cmd, hook_env(Top.env), TRUE))
     ELSE stack' = Append(Below, [Top EXCEPT !.cmd = cmd, !.pc = "returned", !.result = OkUnit])
  /\ UNCHANGED <<reentrant_hooks, vars, naming, gens, conf>>

\* The command ends; config.rs 118-126 for the kbs2 that waits in status().
CommandExit(code) ==
  /\ stack /= <<>>
  /\ Top.kind = "cmd"
  /\ code \in exit_codes(Top.cmd)
  /\ stack' = IF Top.by_hook
              THEN Append(SubSeq(Below, 1, Len(Below) - 1),
                          [Below[Len(Below)] EXCEPT
                             !.pc = "returned",
                             !.status = Exited(code),
                             !.result = call_hook_result(Below[Len(Below)].cmd, Exited(code))])
              ELSE Below
  /\ UNCHANGED <<reentrant_hooks, vars, naming, gens, conf>>

\* The script runs kbs2, which inherits its environment.
SpawnKbs2 ==
  /\ stack /= <<>>
  /\ Top.kind = "cmd"
  /\ Top.cmd = "hook-script"
  /\ Len(stack) + 1 < MaxDepth
  /\ stack' = Append(stack, Kbs2(Top.env))
  /\ UNCHANGED <<reentrant_hooks, vars, naming, gens, conf>>

\* The script runs another script, which inherits its environment.
SpawnScript ==
  /\ stack /= <<>>
  /\ Top.kind = "cmd"
  /\ Top.cmd = "hook-script"
  /\ Len(stack) < MaxDepth
  /\ stack' = Append(stack, Proc("hook-script", Top.env, FALSE))
  /\ UNCHANGED <<reentrant_hooks, vars, naming, gens, conf>>

\* A kbs2 that a script started ends.
Kbs2Exit ==
  /\ Len(stack) > 1
  /\ Top.kind = "kbs2"
  /\ Top.pc = "returned"
  /\ stack' = Below
  /\ UNCHANGED <<reentrant_hooks, vars, naming, gens, conf>>

HookNext ==
  \/ \E cmd \in Commands : CallHook(cmd)
  \/ \E code \in ExitCodes : CommandExit(code)
  \/ SpawnKbs2
  \/ SpawnScript
  \/ Kbs2Exit

HookSpec == HookInit /\ [][HookNext]_<<vars, others>>

\* The kbs2 processes of the chain whose call_hook has decided what to do.
Decided == {k \in 1..Len(stack) : stack[k].kind = "kbs2" /\ stack[k].pc /= "call_hook"}

(***************************************************************************)
(* C13.  When call_hook runs the command.                                  *)
(***************************************************************************)
\* C13: call_hook runs the hook command if and only if reentrant-hooks is true
\* or KBS2_HOOK is absent from the environment; with reentrant-hooks false and
\* KBS2_HOOK present it runs nothing and returns Ok.
C13_Original ==
  \A k \in Decided :
    /\ stack[k].ran <=> (reentrant_hooks \/ ~stack[k].env.present)
    /\ (~reentrant_hooks /\ stack[k].env.present)
         => (~stack[k].ran /\ stack[k].result = OkUnit)

(***************************************************************************)
(* C14.  The result of a hook that ran.                                    *)
(***************************************************************************)
\* C14: when call_hook ran the command and has returned, it returned Ok if the
\* command exited with status 0, "hook exited with an error code: <cmd>" if it
\* exited with another status, and "failed to run hook: <cmd>" if the command
\* could not be started.
C14_HookResult ==
  \A k \in Decided :
    (stack[k].ran /\ stack[k].pc = "returned") =>
      /\ stack[k].status = Exited(0) => stack[k].result = OkUnit
      /\ (stack[k].status.ok /\ stack[k].status /= Exited(0))
           => stack[k].result = Msg(<<"hook exited with an error code: ", stack[k].cmd>>)
      /\ stack[k].status = SpawnFailed
           => stack[k].result = Msg(<<"failed to run hook: ", stack[k].cmd>>)

\* A hook command that was started has exited with a failure status and
\* call_hook has returned the error that names it.
C14_Witness ==
  \E k \in Decided :
    /\ stack[k].ran
    /\ stack[k].pc = "returned"
    /\ stack[k].status = Exited(1)
    /\ stack[k].cmd \in {"false", "hook-script"}
    /\ stack[k].result = Msg(<<"hook exited with an error code: ", stack[k].cmd>>)

(***************************************************************************)
(* C20.  Hooks do not nest unless reentrant-hooks is set.                  *)
(***************************************************************************)
\* The processes of the chain that call_hook started.
HookCommands == {k \in 1..Len(stack) : stack[k].kind = "cmd" /\ stack[k].by_hook}

\* C20: every command call_hook started has KBS2_HOOK set in its environment;
\* and with reentrant-hooks false a kbs2 process that descends from a hook
\* command runs no hook, so at most one hook command is alive in the chain.
C20_NestingBounded ==
  /\ \A k \in HookCommands : stack[k].env = EnvSet(<<49>>)
  /\ ~reentrant_hooks =>
       /\ \A k \in Decided : (\E h \in HookCommands : h < k) => ~stack[k].ran
       /\ Cardinality(HookCommands) <= 1

\* With reentrant-hooks false, a kbs2 started by a script that the hook
\* script started has been asked to call a hook and has skipped it.
C20_Witness ==
  /\ ~reentrant_hooks
  /\ \E k \in Decided :
       /\ k > 3
       /\ stack[2].by_hook
       /\ stack[k - 1].kind = "cmd" /\ ~stack[k - 1].by_hook
       /\ stack[k].pc = "returned"
       /\ ~stack[k].ran
       /\ stack[k].result = OkUnit

(***************************************************************************)
(* Config::get_generator.                                                  *)
(***************************************************************************)
\* Longest list of configured generators.
MaxGenerators == 3

GeneratorNames == {"default", "pin"}
GeneratorConfigs == {[kind |-> k, name |-> n] : k \in {"Command", "Internal"}, n \in GeneratorNames}
Queries == GeneratorNames \cup {"nonexistent-generator"}

\* Option<&dyn Generator>: Some refers to an element of Config.generators.
None == [type |-> "None", detail |-> <<>>]
Some(i) == [type |-> "Some", detail |-> <<i>>]

\* Mutant: the loop goes on after a match, the last match is returned.
RECURSIVE get_generator_last(_, _, _)
get_generator_last(gs, n, i) ==
  IF i > Len(gs) THEN None
  ELSE IF get_generator_last(gs, n, i + 1) /= None THEN get_generator_last(gs, n, i + 1)
  ELSE IF gs[i].name = n THEN Some(i)
  ELSE None

\* config.rs 135-144, the loop from its i-th iteration
RECURSIVE get_generator(_, _, _)
get_generator(gs, n, i) ==
  IF i > Len(gs) THEN None
  ELSE IF gs[i].name = n THEN Some(i)
  ELSE get_generator(gs, n, i + 1)

GeneratorInit ==
  /\ UnwrapIdle /\ NamingIdle /\ HooksIdle /\ ConfIdle
  /\ generators \in SeqsUpTo(GeneratorConfigs, MaxGenerators)
  /\ query = ""
  /\ found = NoResult
  /\ gen_alphabet = <<>>
  /\ gen_length = 0
  /\ generated = NoResult

GetGenerator(n) ==
  /\ found = NoResult
  /\ query' = n
  /\ found' = get_generator(generators, n, 1)
  /\ UNCHANGED <<generators, gen_alphabet, gen_length, generated, vars, naming, hooks, conf>>

GeneratorNext == \E n \in Queries : GetGenerator(n)

GeneratorSpec == GeneratorInit /\ [][GeneratorNext]_<<vars, others>>

(***************************************************************************)
(* C15.  get_generator returns the first generator of that name.           *)
(***************************************************************************)
\* The positions of the configured generators called `query`.
Matches == {i \in 1..Len(generators) : generators[i].name = query}

\* C15: get_generator(name) returns None exactly when no configured generator
\* is called name, and otherwise the one that comes first in the
\* configuration among those called name.
C15_FirstMatch ==
  found /= NoResult =>
    /\ found = None <=> Matches = {}
    /\ Matches /= {} => \E i \in Matches : found = Some(i) /\ \A j \in Matches : i <= j

\* Two generators of different kinds share the name asked for, and the one
\* configured first was returned.
C15_Witness ==
  \E i, j \in Matches :
    /\ i < j
    /\ generators[i].kind /= generators[j].kind
    /\ \A k \in Matches : i <= k
    /\ found = Some(i)

(***************************************************************************)
(* initialize and load.  Strings and paths are sequences of bytes; the     *)
(* configuration file holds, for each string field, the token              *)
(* toml::to_string wrote for it.                                           *)
(***************************************************************************)
\* Longest configuration directory path, in bytes.
MaxDirLen == 2

SlashByte == 47
QuoteByte == 34
BackslashByte == 92
TildeByte == 126
\* Bytes of a directory path: '/', 'd', '"', '~' and one that is not UTF-8.
ConfigDirs == SeqsUpTo({SlashByte, 100, QuoteByte, TildeByte, 255}, MaxDirLen) \ {<<>>}

CONFIG_BASENAME == <<107, 98, 115, 50, 46, 99, 111, 110, 102>>
DEFAULT_KEY_BASENAME == <<107, 101, 121>>
\* util::home_dir()
Home == <<SlashByte, 104>>

\* Path::join (base is relative)
join(dir, base) ==
  IF dir = <<>> THEN base
  ELSE IF dir[Len(dir)] = SlashByte THEN dir \o base
  ELSE dir \o <<SlashByte>> \o base

\* Path::to_str: None unless the path is valid UTF-8
to_str(path) == IF IsUtf8(path) THEN [ok |-> TRUE, val |-> path] ELSE [ok |-> FALSE, val |-> <<>>]

\* config.rs 464-468: home.join(".local/share").join(STORE_BASEDIR)
store_dir ==
  join(join(Home, <<46, 108, 111, 99, 97, 108, 47, 115, 104, 97, 114, 101>>),
       <<107, 98, 115, 50>>)

\* toml::to_string on a string: a basic string, '"' and '\' escaped.
RECURSIVE EscapeFrom(_, _)
EscapeFrom(str, i) ==
  IF i > Len(str) THEN <<>>
  ELSE (IF str[i] \in {QuoteByte, BackslashByte} THEN <<BackslashByte, str[i]>> ELSE <<str[i]>>)
       \o EscapeFrom(str, i + 1)

emit_str(str) == <<QuoteByte>> \o EscapeFrom(str, 1) \o <<QuoteByte>>

\* toml::from_str on a basic string token: the value borrows from the input
\* until the first escape, from where on it is an owned copy.
RECURSIVE ScanString(_, _, _, _)
ScanString(token, i, acc, borrowed) ==
  IF i > Len(token) THEN [ok |-> FALSE, borrowed |-> borrowed, val |-> acc]
  ELSE IF token[i] = QuoteByte
       THEN [ok |-> i = Len(token), borrowed |-> borrowed, val |-> acc]
  ELSE IF token[i] = BackslashByte
       THEN IF i + 1 > Len(token) THEN [ok |-> FALSE, borrowed |-> FALSE, val |-> acc]
            ELSE ScanString(token, i + 2, Append(acc, token[i + 1]), FALSE)
  ELSE ScanString(token, i + 1, Append(acc, token[i]), borrowed)

read_string(token) ==
  IF token = <<>> \/ token[1] /= QuoteByte THEN [ok |-> FALSE, borrowed |-> TRUE, val |-> <<>>]
  ELSE ScanString(token, 2, <<>>, TRUE)

\* shellexpand::tilde: a leading "~" alone or before '/' becomes the home directory
tilde(str) ==
  IF str /= <<>> /\ str[1] = TildeByte /\ (Len(str) = 1 \/ str[2] = SlashByte)
  THEN Home \o SubSeq(str, 2, Len(str))
  ELSE str

\* config.rs 429-435: <&str as Deserialize> takes a borrowed string only
deserialize_with_tilde(token) ==
  LET parsed == read_string(token)
  IN  IF ~parsed.ok THEN [ok |-> FALSE, val |-> "unterminated string"]
      ELSE IF ~parsed.borrowed
           THEN [ok |-> FALSE, val |-> "invalid type: string, expected a borrowed string"]
      ELSE [ok |-> TRUE, val |-> tilde(parsed.val)]

\* <String as Deserialize> takes either
deserialize_string(token) ==
  LET parsed == read_string(token)
  IN  IF ~parsed.ok THEN [ok |-> FALSE, val |-> "unterminated string"]
      ELSE [ok |-> TRUE, val |-> parsed.val]

\* The fields of Config that initialize sets from its arguments.  The other
\* fields are the same constants in every configuration file it writes.
MakeConfig(dir, public_key, key_path, is_wrapped, store) ==
  [config_dir |-> dir, public_key |-> public_key, keyfile |-> key_path,
   wrapped |-> is_wrapped, store |-> store]

\* What a file holds: the key, or a configuration as toml::to_string wrote
\* it (config_dir is not serialized).
KeyData ==
  [kind |-> "key", public_key |-> <<>>, keyfile |-> <<>>, wrapped |-> FALSE, store |-> <<>>]
toml_to_string(config) ==
  [kind |-> "toml", public_key |-> emit_str(config.public_key),
   keyfile |-> emit_str(config.keyfile), wrapped |-> config.wrapped,
   store |-> emit_str(config.store)]

\* toml::from_str::<Config>: the fields in the order of the file.
toml_from_str(doc) ==
  LET public_key == deserialize_string(doc.public_key)
      key_path == deserialize_with_tilde(doc.keyfile)
      store == deserialize_with_tilde(doc.store)
  IN  IF doc.kind /= "toml" THEN [ok |-> FALSE, val |-> "expected an equals"]
      ELSE IF ~public_key.ok THEN public_key
      ELSE IF ~key_path.ok THEN key_path
      ELSE IF ~store.ok THEN store
      ELSE [ok |-> TRUE,
            val |-> MakeConfig(<<>>, public_key.val, key_path.val, doc.wrapped, store.val)]

Panic == [type |-> "panic", detail |-> <<>>]
OkConfig(config) == [type |-> "ok", detail |-> <<config>>]
BackendFailed == [type |-> "backend", detail |-> <<"create_keypair">>]

\* RageLib::create_keypair / create_wrapped_keypair: the key file is written
\* and the public key returned, or an error.
RageLib_create_keypair ==
  {[ok |-> TRUE, val |-> <<97, 103, 101, 49>>], [ok |-> FALSE, val |-> <<>>]}
\* fs::write
fs_write == {"ok", "PermissionDenied"}

FilesAt(path) == {f \in disk : f.path = path}

\* config.rs 510-518
load(dir) ==
  IF FilesAt(join(dir, CONFIG_BASENAME)) = {} THEN Io("NotFound")
  ELSE IF ~to_str(dir).ok THEN Panic
  ELSE LET parsed == toml_from_str((CHOOSE f \in FilesAt(join(dir, CONFIG_BASENAME)) : TRUE).data)
       IN  IF ~parsed.ok THEN Msg(<<"config loading error: ", parsed.val>>)
           ELSE OkConfig([parsed.val EXCEPT !.config_dir = to_str(dir).val])

ConfigInit ==
  /\ UnwrapIdle /\ NamingIdle /\ HooksIdle /\ GensIdle
  /\ config_dir \in ConfigDirs
  /\ disk = {}
  /\ initialized = NoResult
  /\ loaded = NoResult

\* config.rs 477-506
Initialize(is_wrapped) ==
  /\ initialized = NoResult
  /\ \E created \in RageLib_create_keypair, written \in fs_write :
       LET key_path == join(config_dir, DEFAULT_KEY_BASENAME)
           with_key == disk \cup {[path |-> key_path, data |-> KeyData]}
       IN  IF ~created.ok
           THEN initialized' = BackendFailed /\ disk' = disk
           ELSE IF ~to_str(config_dir).ok
           THEN initialized' = Panic /\ disk' = with_key
           ELSE IF written /= "ok"
           THEN initialized' = Io(written) /\ disk' = with_key
           ELSE /\ initialized' = OkUnit
                /\ disk' = with_key \cup
                     {[path |-> join(config_dir, CONFIG_BASENAME),
                       data |-> toml_to_string(MakeConfig(to_str(config_dir).val, created.val,
                                                          to_str(key_path).val, is_wrapped,
                                                          to_str(store_dir).val))]}
  /\ UNCHANGED <<config_dir, loaded, vars, naming, hooks, gens>>

\* load(config_dir), called after initialize has returned
Load ==
  /\ initialized /= NoResult
  /\ loaded = NoResult
  /\ loaded' = load(config_dir)
  /\ UNCHANGED <<config_dir, disk, initialized, vars, naming, hooks, gens>>

ConfigNext ==
  \/ \E is_wrapped \in BOOLEAN : Initialize(is_wrapped)
  \/ Load

ConfigSpec == ConfigInit /\ [][ConfigNext]_<<vars, others>>

(***************************************************************************)
(* C16.  initialize, then load.                                            *)
(***************************************************************************)
\* C16: after initialize(dir, false) has succeeded the configuration file and
\* the key file exist in dir, and a load(dir) that follows succeeds and
\* returns a Config whose config_dir is dir.
C16_Original ==
  (/\ initialized = OkUnit
   /\ \A f \in FilesAt(join(config_dir, CONFIG_BASENAME)) : ~f.data.wrapped)
  =>
    /\ FilesAt(join(config_dir, CONFIG_BASENAME)) /= {}
    /\ FilesAt(join(config_dir, DEFAULT_KEY_BASENAME)) /= {}
    /\ loaded /= NoResult =>
         /\ loaded.type = "ok"
         /\ loaded.detail[1].config_dir = config_dir

(***************************************************************************)
(* C17.  The order of the steps of one unwrap.                             *)
(***************************************************************************)
\* The calls of unwrap_keyfile in the order of its text.
StepOrder ==
  <<"shm_open", "get_password", "read", "Decryptor_new", "decrypt", "read_to_string",
    "ftruncate", "Mmap_map", "make_mut", "write_all">>

\* The calls p has made, the unlink of its rollback left out.
StepsBeforeUnlink(p) ==
  IF steps[p] /= <<>> /\ steps[p][Len(steps[p])] = "shm_unlink"
  THEN SubSeq(steps[p], 1, Len(steps[p]) - 1)
  ELSE steps[p]

\* C17: the calls an unwrap has made are an initial part of shm_open, prompt,
\* read, Decryptor::new, decrypt, read_to_string, ftruncate, map, make_mut,
\* write_all (so each is made at most once, after all earlier ones
\* succeeded), followed by at most one unlink; an unwrap has a result
\* exactly when it has returned and makes no call after; and an unwrap that found the name bound has returned
\* AlreadyExists having called shm_open only: no prompt, no read, no backend
\* call, no unlink.
C17_StepOrder ==
  \A p \in Procs :
    /\ IsPrefix(StepsBeforeUnlink(p), StepOrder)
    /\ Calls(p, "shm_unlink") <= 1
    /\ result[p] /= NoResult <=> Returned(p)
    /\ saw_entry[p] =>
         /\ result[p] = AlreadyExists
         /\ steps[p] = <<"shm_open">>
         /\ password[p] = ""
         /\ wrapped_key[p] = NoEnvelope
         /\ unlinked[p] = ""
    /\ result[p] = AlreadyExists => steps[p] = <<"shm_open">>

\* One unwrap has made every call in order and succeeded; another found its
\* entry and returned AlreadyExists after shm_open alone.
C17_Witness ==
  \E p, q \in Procs :
    /\ steps[p] = StepOrder
    /\ result[p] = OkFile
    /\ saw_entry[q]
    /\ result[q] = AlreadyExists
    /\ steps[q] = <<"shm_open">>

(***************************************************************************)
(* Unwraps together with the teardown that removes the entry by its name   *)
(* (the lock / clear-cache command, which derives the same name).          *)
(***************************************************************************)
\* shm_unlink of the name by the teardown command
Teardown ==
  /\ name /= 0
  /\ name' = 0
  /\ UNCHANGED <<keyfile, obj, pc, locals, result, history>>
  /\ UNCHANGED others

TeardownNext ==
  \/ Next
  \/ Teardown

TeardownSpec == Init /\ [][TeardownNext]_<<vars, others>>

(***************************************************************************)
(* C18.  What a rollback removes.                                          *)
(***************************************************************************)
\* C18: whenever the shm_unlink of an unwrap's rollback removes an entry, it
\* is the entry this unwrap created, whatever other unwraps and teardowns
\* did in between.
C18_Original ==
  [][\A p \in Procs :
       (unlinked[p] = "" /\ unlinked'[p] = "ok") => name = p]_<<vars, others>>

(***************************************************************************)
(* Unwraps under fair scheduling: a process that can make its next call    *)
(* makes it.  For the prompt this is the assumption that it returns.       *)
(***************************************************************************)
\* The next call of p's unwrap_keyfile.
UnwrapStep(p) ==
  \/ ShmOpen(p)
  \/ GetPassword(p)
  \/ ReadKeyfile(p)
  \/ NewDecryptor(p)
  \/ Decrypt(p)
  \/ Ftruncate(p)
  \/ MmapMap(p)
  \/ MakeMut(p)
  \/ WriteAll(p)

FairSpec == Spec /\ \A p \in Procs : WF_<<vars, others>>(UnwrapStep(p))

(***************************************************************************)
(* C19.  No unwrap waits for another.                                      *)
(***************************************************************************)
\* C19: an unwrap that has not returned can always make its next call,
\* whatever the other unwraps have done; and every unwrap eventually
\* returns, with success or with an error.
C19_NoDeadlock ==
  /\ [](\A p \in Procs : ~Returned(p) => ENABLED UnwrapStep(p))
  /\ \A p \in Procs : <>(Returned(p) /\ result[p] /= NoResult)

\* Every unwrap has returned: one with success, another with AlreadyExists
\* from an shm_open it made while the first was between its calls.
C19_Witness ==
  /\ \A p \in Procs : Returned(p)
  /\ \E p, q \in Procs :
       /\ result[p] = OkFile
       /\ result[q] = AlreadyExists
       /\ pc[p] = "done"
       /\ pc[q] = "done"

(***************************************************************************)
(* <GeneratorInternalConfig as Generator>::secret (generator.rs).  A       *)
(* string is the sequence of its code points.                              *)
(***************************************************************************)
\* Longest alphabet, in characters, and largest configured length.
MaxAlphabetLen == 2
MaxSecretLen == 3

\* Alphabets over 'a', 'b' and the non-ASCII U+00E9.
Alphabets == SeqsUpTo({97, 98, 233}, MaxAlphabetLen)

\* str::is_ascii
is_ascii(str) == \A i \in 1..Len(str) : str[i] < 128

\* str::as_bytes: the UTF-8 encoding (code points below U+0800)
RECURSIVE utf8(_)
utf8(str) ==
  IF str = <<>> THEN <<>>
  ELSE (IF Head(str) < 128 THEN <<Head(str)>>
        ELSE <<192 + (Head(str) \div 64), 128 + (Head(str) % 64)>>)
       \o utf8(Tail(str))

\* Rng::gen_range(low, high): the values it can return; none when the range
\* is empty, where it panics.
gen_range(low, high) == IF low >= high THEN {} ELSE low..(high - 1)

GeneratorError == [type |-> "error", detail |-> <<"generator alphabet contains non-ascii characters">>]
OkSecret(str) == [type |-> "ok", detail |-> <<str>>]

\* generator.rs 30-43: what secret() can return.  `byte as char` is the code
\* point with the number of the byte.
secret(alphabet, length) ==
  IF ~is_ascii(alphabet) THEN {GeneratorError}
  ELSE IF length > 0 /\ gen_range(0, Len(utf8(alphabet))) = {} THEN {Panic}
  ELSE {OkSecret([i \in 1..length |-> utf8(alphabet)[picks[i] + 1]]) :
          picks \in [1..length -> gen_range(0, Len(utf8(alphabet)))]}

SecretInit ==
  /\ UnwrapIdle /\ NamingIdle /\ HooksIdle /\ ConfIdle
  /\ generators = <<>>
  /\ query = ""
  /\ found = NoResult
  /\ gen_alphabet \in Alphabets
  /\ gen_length \in 0..MaxSecretLen
  /\ generated = NoResult

GenerateSecret ==
  /\ generated = NoResult
  /\ generated' \in secret(gen_alphabet, gen_length)
  /\ UNCHANGED <<generators, query, found, gen_alphabet, gen_length, vars, naming, hooks, conf>>

SecretSpec == SecretInit /\ [][GenerateSecret]_<<vars, others>>

(***************************************************************************)
(* C21.  What secret() returns.                                            *)
(***************************************************************************)
\* C21: for an alphabet of ASCII characters only and any length n, secret()
\* returns Ok with a string of exactly n characters, each of them in the
\* alphabet; for an alphabet with a non-ASCII character it returns an error
\* and no secret.
C21_Original ==
  generated /= NoResult =>
    IF is_ascii(gen_alphabet)
    THEN /\ generated.type = "ok"
         /\ Len(generated.detail[1]) = gen_length
         /\ Range(generated.detail[1]) \subseteq Range(gen_alphabet)
    ELSE generated = GeneratorError

====
